---- MODULE Spec2Model ----
(***************************************************************************)
(* Model of the Solid UDisks2 StorageAccess adapter (setup / teardown      *)
(* state machine, accessibility cache, mount-path selection) and of the    *)
(* Solid UPower device adapter (property cache, capability query, resume   *)
(* handling).                                                              *)
(*                                                                         *)
(* Four specifications share the module:                                   *)
(*   Spec        the StorageAccess object of one device and its handlers   *)
(*   SpecPath    filePath() / get_shortest over reported mount points      *)
(*   SpecUPower  the UPowerDevice object and its handlers                  *)
(*   SpecKind    queryDeviceInterface() over every Type and NativePath     *)
(* Each one leaves the variables of the other parts at their initial       *)
(* value.                                                                  *)
(***************************************************************************)
EXTENDS Integers, Sequences, FiniteSets, Bags, TLC

VARIABLES
    \* ---- StorageAccess fields
    m_setupInProgress,      \* bool
    m_teardownInProgress,   \* bool
    m_passphraseRequested,  \* bool
    m_isAccessible,         \* bool, the cached accessibility
    \* ---- the storage service's state, as the handlers read it
    isLuks,                 \* m_device->isEncryptedContainer()
    ctPath,                 \* object path of the cleartext volume, "" if none
    devMounted,             \* m_device->isMounted()
    ctMounted,              \* Device(ctPath).isMounted()
    \* ---- messages in flight
    pending,                \* bag of callWithCallback calls awaiting their callback
    \* ---- what the handler that ran last did
    lastOp,                 \* its name
    arg,                    \* its argument ("" if it has none); of slotDBusReply,
                            \* what it read of the parent drive
    ret,                    \* its return value ("true", "false", "void")
    out,                    \* its outputs, in program order
    \* ---- history
    initAcc,                \* accessibility cached by the constructor
    lastAcc,                \* value of the last accessibilityChanged event
    \* ---- filePath()
    mntDev,                 \* MountPoints of the device
    mntHolder,              \* MountPoints of the cleartext volume
    pathLuks,               \* isLuksDevice() as filePath() sees it
    pathCt,                 \* clearTextPath() as filePath() sees it
    filePathResult,         \* what filePath() returned
    hintIgnore,             \* the device's HintIgnore property
    homePath,               \* QDir::homePath()
    isIgnoredResult,        \* what isIgnored() returned
    \* ---- UPowerDevice
    m_cache,                \* the property cache: a function key -> value
    remote,                 \* the remote device's properties
    upOp,                   \* the UPowerDevice handler that ran last
    upArg,                  \* its argument
    upRet,                  \* its return value
    upOut                   \* its outputs, in program order

storageVars == <<m_setupInProgress, m_teardownInProgress, m_passphraseRequested,
                 m_isAccessible, isLuks, ctPath, devMounted, ctMounted, pending,
                 lastOp, arg, ret, out, initAcc, lastAcc>>
pathVars == <<mntDev, mntHolder, pathLuks, pathCt, filePathResult,
              hintIgnore, homePath, isIgnoredResult>>
upowerVars == <<m_cache, remote, upOp, upArg, upRet, upOut>>
vars == <<storageVars, pathVars, upowerVars>>

\* Largest number of callWithCallback calls in flight the model follows.
MaxPending == 2

-----------------------------------------------------------------------------
(* Names *)

DEV == "/org/freedesktop/UDisks2/block_devices/sdb1"
CT == "/org/freedesktop/UDisks2/block_devices/dm_2d0"
DRIVE == "/org/freedesktop/UDisks2/drives/Reader"

B2S(b) == IF b THEN "true" ELSE "false"

\* One output of a handler: what was done (t), to what (a), with which value (v).
Ev(t, a, v) == [t |-> t, a |-> a, v |-> v]

\* The error names a D-Bus error callback may carry.
DBusErrors == {"org.freedesktop.UDisks2.Error.DeviceBusy",
               "org.freedesktop.UDisks2.Error.NotAuthorized"}

\* The (error, errorString) pairs a setup/teardown done notification may carry.
DoneErrors == {"NoError", "UserCanceled"}

Passphrases == {"", "secret"}

\* QVariant(): the invalid variant.
Invalid == [valid |-> FALSE, u |-> 0, s |-> ""]

\* QString::startsWith().
startsWith(str, prefix) ==
    Len(str) >= Len(prefix) /\ SubSeq(str, 1, Len(prefix)) = prefix

\* A property map (QVariantMap) without entries.
EmptyMap == [x \in {} |-> Invalid]

-----------------------------------------------------------------------------
(* StorageAccess: the object and the service state as records *)

This == [sip |-> m_setupInProgress, tip |-> m_teardownInProgress,
         pr |-> m_passphraseRequested, acc |-> m_isAccessible]

World == [luks |-> isLuks, ct |-> ctPath, dev |-> devMounted, ctm |-> ctMounted]

\* The result of a handler: the object's fields, its outputs, the calls with
\* callback it put in flight, its return value.
Result(s, o, calls, r) == [s |-> s, out |-> o, calls |-> calls, ret |-> r]

isLuksDevice(w) == w.luks

clearTextPath(w) == w.ct

\* Faulty variant: a mounted container counts as accessible too.
isAccessible_orOwnMount(w) ==
    IF isLuksDevice(w)
    THEN LET path == clearTextPath(w)
         IN  IF path = "" \/ path = "/" THEN w.dev ELSE w.ctm \/ w.dev
    ELSE w.dev

isAccessible(w) ==
    IF isLuksDevice(w)
    THEN LET path == clearTextPath(w)
         IN  IF path = "" \/ path = "/" THEN FALSE ELSE w.ctm
    ELSE w.dev

updateCache(s, w) == [s EXCEPT !.acc = isAccessible(w)]

\* Faulty variant: level-triggered, an event on every recomputation.
checkAccessibility_always(old, new) == <<Ev("accessibilityChanged", DEV, B2S(new))>>

\* The events checkAccessibility() emits, given the cached and the recomputed value.
checkAccessibilityEmits(old, new) ==
    IF old # new THEN <<Ev("accessibilityChanged", DEV, B2S(new))>> ELSE <<>>

checkAccessibility(s, w) ==
    LET s2 == updateCache(s, w)
    IN  [s |-> s2, out |-> checkAccessibilityEmits(s.acc, s2.acc)]

\* c.callWithCallback(msg, ...): the call is in flight iff the bus took it.
callWithCallback(method, path, busOk) ==
    [out |-> <<Ev("callWithCallback", method, path)>>,
     calls |-> IF busOk THEN <<[method |-> method, path |-> path]>> ELSE <<>>,
     ret |-> B2S(busOk)]

mount(w, busOk) ==
    LET path == IF isLuksDevice(w) /\ clearTextPath(w) # "" THEN clearTextPath(w) ELSE DEV
    IN  callWithCallback("Mount", path, busOk)

unmount(w, busOk) ==
    LET path == IF isLuksDevice(w) /\ clearTextPath(w) # "" THEN clearTextPath(w) ELSE DEV
    IN  callWithCallback("Unmount", path, busOk)

callCryptoSetup(busOk) == callWithCallback("Unlock", DEV, busOk)

\* actOnParent locks the device's own CryptoBackingDevice; DEV has none.
callCryptoTeardown(actOnParent, busOk) ==
    callWithCallback("Lock", IF actOnParent THEN "/" ELSE DEV, busOk)

\* requestPassphrase(): dialogOk is whether showPassphraseDialog's reply is valid.
requestPassphrase(s, dialogOk) ==
    Result([s EXCEPT !.pr = dialogOk],
           <<Ev("registerObject", "", ""), Ev("showPassphraseDialog", DEV, "")>>,
           <<>>, B2S(dialogOk))

\* setup(): dialogOk and busOk are what the prompt service and the bus answer.
\* Faulty variant: prompts for every encrypted container, unlocked or not.
setupAccepted_promptWheneverLuks(s, w, dialogOk, busOk) ==
    LET s1 == [s EXCEPT !.sip = TRUE]
        o1 == <<Ev("broadcastActionRequested", "setup", "")>>
    IN  IF w.luks
        THEN LET r == requestPassphrase(s1, dialogOk)
             IN  Result(r.s, o1 \o r.out, r.calls, r.ret)
        ELSE LET m == mount(w, busOk)
             IN  Result(s1, o1 \o m.out, m.calls, m.ret)

\* setup() past its guard.
setupAccepted(s, w, dialogOk, busOk) ==
    LET s1 == [s EXCEPT !.sip = TRUE]
        o1 == <<Ev("broadcastActionRequested", "setup", "")>>
    IN  IF w.luks /\ clearTextPath(w) = ""
        THEN LET r == requestPassphrase(s1, dialogOk)
             IN  Result(r.s, o1 \o r.out, r.calls, r.ret)
        ELSE LET m == mount(w, busOk)
             IN  Result(s1, o1 \o m.out, m.calls, m.ret)

\* Faulty variant: the guard forgets m_teardownInProgress.
setup_guardsOwnFlagOnly(s, w, dialogOk, busOk) ==
    IF s.sip
    THEN Result(s, <<>>, <<>>, "false")
    ELSE setupAccepted(s, w, dialogOk, busOk)

setup(s, w, dialogOk, busOk) ==
    IF s.tip \/ s.sip
    THEN Result(s, <<>>, <<>>, "false")
    ELSE setupAccepted(s, w, dialogOk, busOk)

teardown(s, w, busOk) ==
    IF s.tip \/ s.sip
    THEN Result(s, <<>>, <<>>, "false")
    ELSE LET s1 == [s EXCEPT !.tip = TRUE]
             o1 == <<Ev("broadcastActionRequested", "teardown", "")>>
             u == unmount(w, busOk)
         IN  Result(s1, o1 \o u.out, u.calls, u.ret)

\* What slotDBusReply() reads of the parent drive and of the device's medium.
DriveInputs ==
    {d \in [drivePath : {"", DRIVE}, removable : BOOLEAN, available : BOOLEAN,
            canPowerOff : BOOLEAN, optical : BOOLEAN] :
        d.drivePath = "" => ~d.removable /\ ~d.available /\ ~d.canPowerOff}

NoDrive == [drivePath |-> "", removable |-> FALSE, available |-> FALSE,
            canPowerOff |-> FALSE, optical |-> FALSE]

\* Faulty variant: the drive of an optical disc is ejected or powered off too.
ejectOrPowerOff_opticalToo(d) ==
    IF d.removable /\ d.available
    THEN <<Ev("call", "Eject", d.drivePath)>>
    ELSE IF d.canPowerOff
         THEN <<Ev("call", "PowerOff", d.drivePath)>>
         ELSE <<>>

\* The fire-and-forget call to the parent drive after a successful unmount.
ejectOrPowerOff(d) ==
    IF d.drivePath # "" \/ d.drivePath # "/"
    THEN IF d.removable /\ d.available /\ ~d.optical
         THEN <<Ev("call", "Eject", d.drivePath)>>
         ELSE IF d.canPowerOff /\ ~d.optical
              THEN <<Ev("call", "PowerOff", d.drivePath)>>
              ELSE <<>>
    ELSE <<>>

\* Faulty variant: every success reply ends a setup (the behaviour before the
\* fix of kde#271156).
slotDBusReply_doneOnAnyReply(s, w, d, busOk) ==
    IF s.sip
    THEN LET s1 == [s EXCEPT !.sip = FALSE]
             c == checkAccessibility(s1, w)
         IN  Result(c.s,
                    <<Ev("invalidateCache", "", ""),
                      Ev("broadcastActionDone", "setup", "NoError")>> \o c.out,
                    <<>>, "void")
    ELSE Result(s, <<>>, <<>>, "void")

slotDBusReply(s, w, d, busOk) ==
    IF s.sip
    THEN IF isLuksDevice(w) /\ ~isAccessible(w)
         THEN LET m == mount(w, busOk)
              IN  Result(s, m.out, m.calls, "void")
         ELSE LET s1 == [s EXCEPT !.sip = FALSE]
                  c == checkAccessibility(s1, w)
              IN  Result(c.s,
                         <<Ev("invalidateCache", "", ""),
                           Ev("broadcastActionDone", "setup", "NoError")>> \o c.out,
                         <<>>, "void")
    ELSE IF s.tip
    THEN LET ctp == clearTextPath(w)
         IN  IF isLuksDevice(w) /\ ctp # "" /\ ctp # "/"
             THEN LET l == callCryptoTeardown(FALSE, busOk)
                  IN  Result(s, l.out, l.calls, "void")
             ELSE IF ctp # "" /\ ctp # "/"
             THEN LET l == callCryptoTeardown(TRUE, busOk)
                  IN  Result(s, l.out, l.calls, "void")
             ELSE LET s1 == [s EXCEPT !.tip = FALSE]
                      c == checkAccessibility(s1, w)
                  IN  Result(c.s,
                             ejectOrPowerOff(d) \o
                             <<Ev("invalidateCache", "", ""),
                               Ev("broadcastActionDone", "teardown", "NoError")>> \o c.out,
                             <<>>, "void")
    ELSE Result(s, <<>>, <<>>, "void")

\* slotDBusError(): the done event carries the translation of the error's name.
slotDBusError(s, w, err) ==
    IF s.sip
    THEN LET s1 == [s EXCEPT !.sip = FALSE]
             c == checkAccessibility(s1, w)
         IN  Result(c.s, <<Ev("broadcastActionDone", "setup", err)>> \o c.out, <<>>, "void")
    ELSE IF s.tip
    THEN LET s1 == [s EXCEPT !.tip = FALSE]
             c == checkAccessibility(s1, w)
         IN  Result(c.s, <<Ev("broadcastActionDone", "teardown", err)>> \o c.out, <<>>, "void")
    ELSE Result(s, <<>>, <<>>, "void")

slotSetupRequested(s) ==
    Result([s EXCEPT !.sip = TRUE], <<Ev("emit", "setupRequested", "")>>, <<>>, "void")

slotSetupDone(s, w, err) ==
    LET s1 == [s EXCEPT !.sip = FALSE]
        c == checkAccessibility(s1, w)
    IN  Result(c.s, c.out \o <<Ev("emit", "setupDone", err)>>, <<>>, "void")

slotTeardownRequested(s) ==
    Result([s EXCEPT !.tip = TRUE], <<Ev("emit", "teardownRequested", "")>>, <<>>, "void")

slotTeardownDone(s, w, err) ==
    LET s1 == [s EXCEPT !.tip = FALSE]
        c == checkAccessibility(s1, w)
    IN  Result(c.s, c.out \o <<Ev("emit", "teardownDone", err)>>, <<>>, "void")

\* Faulty variant: an empty passphrase is sent to Unlock like any other.
passphraseReply_unlocksOnEmpty(s, passphrase, busOk) ==
    IF s.pr
    THEN LET u == callCryptoSetup(busOk)
         IN  Result([s EXCEPT !.pr = FALSE],
                    <<Ev("unregisterObject", "", "")>> \o u.out, u.calls, "void")
    ELSE Result(s, <<>>, <<>>, "void")

\* Faulty variant: a reply is acted on whether or not a request is outstanding.
passphraseReply_unguarded(s, passphrase, busOk) ==
    LET s1 == [s EXCEPT !.pr = FALSE]
        o1 == <<Ev("unregisterObject", "", "")>>
    IN  IF passphrase # ""
        THEN LET u == callCryptoSetup(busOk)
             IN  Result(s1, o1 \o u.out, u.calls, "void")
        ELSE Result([s1 EXCEPT !.sip = FALSE],
                    o1 \o <<Ev("broadcastActionDone", "setup", "UserCanceled")>>,
                    <<>>, "void")

passphraseReply(s, passphrase, busOk) ==
    IF s.pr
    THEN LET s1 == [s EXCEPT !.pr = FALSE]
             o1 == <<Ev("unregisterObject", "", "")>>
         IN  IF passphrase # ""
             THEN LET u == callCryptoSetup(busOk)
                  IN  Result(s1, o1 \o u.out, u.calls, "void")
             ELSE Result([s1 EXCEPT !.sip = FALSE],
                         o1 \o <<Ev("broadcastActionDone", "setup", "UserCanceled")>>,
                         <<>>, "void")
    ELSE Result(s, <<>>, <<>>, "void")

-----------------------------------------------------------------------------
(* The storage service *)

\* The service states the model considers: only an encrypted container has a
\* cleartext volume, only an existing cleartext volume is mounted, and an
\* encrypted container itself carries no filesystem.
WorldOk(w) ==
    /\ w.ct # "" => w.luks
    /\ w.ctm => w.ct # ""
    /\ w.dev => ~w.luks

\* Whether the service can carry out a call in state w.
CanSucceed(c, w) ==
    CASE c.method = "Mount"   -> IF c.path = CT THEN w.ct = CT ELSE ~w.luks
      [] c.method = "Unmount" -> IF c.path = CT THEN w.ct = CT ELSE ~w.luks
      [] c.method = "Unlock"  -> w.luks /\ w.ct = ""
      [] c.method = "Lock"    -> w.luks /\ w.ct # ""

\* The service state after it carried out a call.
Effect(c, w) ==
    CASE c.method = "Mount"   -> IF c.path = CT THEN [w EXCEPT !.ctm = TRUE]
                                                ELSE [w EXCEPT !.dev = TRUE]
      [] c.method = "Unmount" -> IF c.path = CT THEN [w EXCEPT !.ctm = FALSE]
                                                ELSE [w EXCEPT !.dev = FALSE]
      [] c.method = "Unlock"  -> [w EXCEPT !.ct = CT]
      [] c.method = "Lock"    -> [w EXCEPT !.ct = "", !.ctm = FALSE]

-----------------------------------------------------------------------------
(* Spec: the StorageAccess object of one device *)

SeqToBag(q) == IF q = <<>> THEN EmptyBag ELSE SetToBag({q[1]})

AccEvents(o) == SelectSeq(o, LAMBDA e : e.t = "accessibilityChanged")

\* The step of one handler: r is what the handler computed, w the service state
\* it ran in, inFlight the calls in flight apart from those it issued.
Step(op, a, r, w, inFlight) ==
    /\ BagCardinality(inFlight) + Len(r.calls) <= MaxPending
    /\ m_setupInProgress' = r.s.sip
    /\ m_teardownInProgress' = r.s.tip
    /\ m_passphraseRequested' = r.s.pr
    /\ m_isAccessible' = r.s.acc
    /\ pending' = inFlight (+) SeqToBag(r.calls)
    /\ lastOp' = op
    /\ arg' = a
    /\ ret' = r.ret
    /\ out' = r.out
    /\ lastAcc' = IF AccEvents(r.out) = <<>> THEN lastAcc
                  ELSE AccEvents(r.out)[Len(AccEvents(r.out))].v
    /\ ctPath' = w.ct
    /\ devMounted' = w.dev
    /\ ctMounted' = w.ctm
    /\ UNCHANGED <<isLuks, initAcc, pathVars, upowerVars>>

StorageInit ==
    /\ isLuks \in BOOLEAN
    /\ ctPath \in {"", CT}
    /\ devMounted \in BOOLEAN
    /\ ctMounted \in BOOLEAN
    /\ WorldOk(World)
    /\ m_setupInProgress = FALSE
    /\ m_teardownInProgress = FALSE
    /\ m_passphraseRequested = FALSE
    /\ m_isAccessible = isAccessible(World)
    /\ initAcc = m_isAccessible
    /\ lastAcc = "none"
    /\ pending = EmptyBag
    /\ lastOp = "StorageAccess"
    /\ arg = ""
    /\ ret = "void"
    /\ out = <<>>

Setup ==
    \E dialogOk \in BOOLEAN, busOk \in BOOLEAN :
        Step("setup", "", setup(This, World, dialogOk, busOk), World, pending)

Teardown ==
    \E busOk \in BOOLEAN :
        Step("teardown", "", teardown(This, World, busOk), World, pending)

\* The success callback of a call in flight: the service carried the call out.
\* The drive is read only on the last branch of slotDBusReply(); elsewhere one
\* value stands for all.
DBusReply ==
    \E c \in BagToSet(pending), busOk \in BOOLEAN :
        /\ CanSucceed(c, World)
        /\ LET w == Effect(c, World)
               readsDrive == ~This.sip /\ This.tip /\ clearTextPath(w) \in {"", "/"}
           IN  \E d \in IF readsDrive THEN DriveInputs ELSE {NoDrive} :
                   Step("slotDBusReply", d, slotDBusReply(This, w, d, busOk), w,
                        pending (-) SetToBag({c}))

\* The error callback of a call in flight.
DBusError ==
    \E c \in BagToSet(pending), err \in DBusErrors :
        Step("slotDBusError", err, slotDBusError(This, World, err), World,
             pending (-) SetToBag({c}))

\* Setup/teardown requested/done notifications of the device, as broadcast on
\* the session bus by any process that drives the same device.
SetupRequestedSignal ==
    Step("slotSetupRequested", "", slotSetupRequested(This), World, pending)

SetupDoneSignal ==
    \E err \in DoneErrors :
        Step("slotSetupDone", err, slotSetupDone(This, World, err), World, pending)

TeardownRequestedSignal ==
    Step("slotTeardownRequested", "", slotTeardownRequested(This), World, pending)

TeardownDoneSignal ==
    \E err \in DoneErrors :
        Step("slotTeardownDone", err, slotTeardownDone(This, World, err), World, pending)

\* The prompt service (or any caller on the session bus) delivers a passphrase.
PassphraseReply ==
    \E p \in Passphrases, busOk \in BOOLEAN :
        Step("passphraseReply", p, passphraseReply(This, p, busOk), World, pending)

\* The device's changed() signal.
DeviceChanged ==
    LET c == checkAccessibility(This, World)
    IN  Step("checkAccessibility", "", Result(c.s, c.out, <<>>, "void"), World, pending)

\* Somebody else mounts, unmounts, unlocks or locks: no handler runs.
ServiceChange ==
    \E ct \in {"", CT}, dm \in BOOLEAN, cm \in BOOLEAN :
        LET w == [luks |-> isLuks, ct |-> ct, dev |-> dm, ctm |-> cm]
        IN  /\ WorldOk(w)
            /\ w # World
            /\ Step("service", "", Result(This, <<>>, <<>>, "void"), w, pending)

PathIdle ==
    /\ mntDev = <<>>
    /\ mntHolder = <<>>
    /\ pathLuks = FALSE
    /\ pathCt = ""
    /\ filePathResult = ""
    /\ hintIgnore = FALSE
    /\ homePath = ""
    /\ isIgnoredResult = ""

UPowerIdle ==
    /\ m_cache = EmptyMap
    /\ remote = EmptyMap
    /\ upOp = "UPowerDevice"
    /\ upArg = ""
    /\ upRet = ""
    /\ upOut = <<>>

Init == StorageInit /\ PathIdle /\ UPowerIdle

Next ==
    \/ Setup
    \/ Teardown
    \/ DBusReply
    \/ DBusError
    \/ SetupRequestedSignal
    \/ SetupDoneSignal
    \/ TeardownRequestedSignal
    \/ TeardownDoneSignal
    \/ PassphraseReply
    \/ DeviceChanged
    \/ ServiceChange

Spec == Init /\ [][Next]_vars

-----------------------------------------------------------------------------
(* Properties of Spec *)

Count(o, t, a) == Len(SelectSeq(o, LAMBDA e : e.t = t /\ e.a = a))

CountT(o, t) == Len(SelectSeq(o, LAMBDA e : e.t = t))

CountEv(o, e) == Len(SelectSeq(o, LAMBDA x : x = e))

Busy == m_setupInProgress \/ m_teardownInProgress

\* C1: setup() or teardown() called while a setup or a teardown is in progress
\* returns false and changes nothing: the three flags and the calls in flight
\* keep their values and the handler has no output at all (no requested or done
\* broadcast, no passphrase prompt, no D-Bus call).
C1_RejectedChangesNothing ==
    [][(lastOp' \in {"setup", "teardown"} /\ Busy) =>
          /\ ret' = "false"
          /\ out' = <<>>
          /\ UNCHANGED <<m_setupInProgress, m_teardownInProgress,
                         m_passphraseRequested, m_isAccessible, pending>>]_vars

\* A setup() was rejected while a teardown had its Unmount call in flight.
C1_Witness ==
    /\ lastOp = "setup" /\ ret = "false" /\ out = <<>>
    /\ m_teardownInProgress /\ ~m_setupInProgress
    /\ BagCardinality(pending) = 1

\* C2: the two in-progress flags are never both true.
C2_NeverBothInProgress == ~(m_setupInProgress /\ m_teardownInProgress)

\* C3: accessibilityChanged is emitted exactly when the cached accessibility
\* changes, at most once per handler run and with the new value; so an event
\* never repeats the value of the event before it, and the first event carries
\* the negation of the value cached at construction.
C3_EdgeTriggered ==
    [][LET ev == AccEvents(out')
       IN  /\ Len(ev) <= 1
           /\ (Len(ev) = 1) <=> (m_isAccessible' # m_isAccessible)
           /\ Len(ev) = 1 =>
                 /\ ev[1].v = B2S(m_isAccessible')
                 /\ ev[1].v # lastAcc
                 /\ lastAcc = "none" => ev[1].v = B2S(~initAcc)]_vars

\* A second accessibilityChanged event was emitted: it carries the value cached
\* at construction again.
C3_Witness ==
    /\ AccEvents(out) # <<>>
    /\ lastAcc = B2S(initAcc)

\* C5: setup() accepted from Idle requests the passphrase prompt and issues no
\* call to the storage service if the device is an encrypted container without
\* a cleartext volume (the flag m_passphraseRequested then tells whether the
\* prompt is awaited); in every other case it issues exactly one Mount call and
\* requests no prompt.
C5_PromptOrMount ==
    [][(lastOp' = "setup" /\ ~Busy) =>
          IF isLuks /\ ctPath = ""
          THEN /\ CountT(out', "showPassphraseDialog") = 1
               /\ CountT(out', "callWithCallback") = 0
               /\ pending' = pending
               /\ m_passphraseRequested' = (ret' = "true")
          ELSE /\ Count(out', "callWithCallback", "Mount") = 1
               /\ CountT(out', "callWithCallback") = 1
               /\ CountT(out', "showPassphraseDialog") = 0
               /\ m_passphraseRequested' = m_passphraseRequested]_vars

\* setup() of an unlocked encrypted container went straight to Mount.
C5_Witness ==
    /\ lastOp = "setup" /\ isLuks /\ ctPath = CT
    /\ CountEv(out, Ev("callWithCallback", "Mount", CT)) = 1
    /\ ~m_passphraseRequested /\ m_setupInProgress

\* C6: when the prompt service cannot be invoked during setup(), the setup is
\* over: m_setupInProgress is cleared and a setup-done event with
\* Solid::UserCanceled is broadcast.
C6_PromptFailureReturnsToIdle ==
    (lastOp = "setup" /\ CountT(out, "showPassphraseDialog") = 1 /\ ret = "false") =>
        /\ ~m_setupInProgress
        /\ CountEv(out, Ev("broadcastActionDone", "setup", "UserCanceled")) = 1

\* C7: passphraseReply() with a passphrase request outstanding clears
\* m_passphraseRequested; an empty passphrase also clears m_setupInProgress,
\* broadcasts setup done with Solid::UserCanceled exactly once and issues no
\* call; a non-empty one issues exactly one call, an Unlock of the device,
\* broadcasts nothing and does not touch m_setupInProgress.
C7_PassphraseReply ==
    [][(lastOp' = "passphraseReply" /\ m_passphraseRequested) =>
          /\ ~m_passphraseRequested'
          /\ m_teardownInProgress' = m_teardownInProgress
          /\ IF arg' = ""
             THEN /\ ~m_setupInProgress'
                  /\ CountEv(out', Ev("broadcastActionDone", "setup", "UserCanceled")) = 1
                  /\ CountT(out', "broadcastActionDone") = 1
                  /\ CountT(out', "callWithCallback") = 0
                  /\ pending' = pending
             ELSE /\ m_setupInProgress' = m_setupInProgress
                  /\ CountEv(out', Ev("callWithCallback", "Unlock", DEV)) = 1
                  /\ CountT(out', "callWithCallback") = 1
                  /\ CountT(out', "broadcastActionDone") = 0]_vars

\* A non-empty passphrase arrived for the outstanding request: Unlock is in
\* flight and the setup is still in progress.
C7_Witness ==
    /\ lastOp = "passphraseReply" /\ arg = "secret"
    /\ m_setupInProgress /\ ~m_passphraseRequested
    /\ BagIn([method |-> "Unlock", path |-> DEV], pending)

\* C8: at most one call with callback is in flight, and a setup() or teardown()
\* is accepted only when none is.
C8_OneCallInFlight ==
    /\ BagCardinality(pending) <= 1
    /\ (lastOp \in {"setup", "teardown"} /\ out # <<>>) =>
           \A c \in BagToSet(pending) :
               CountEv(out, Ev("callWithCallback", c.method, c.path)) = 1

\* The step delivers the callback of a call of kind methods and issues no call.
CallbackOf(methods) ==
    \E c \in BagToSet(pending) :
        c.method \in methods /\ pending' = pending (-) SetToBag({c})

\* The step broadcasts exactly one done event: for operation op, with error err.
OneDone(o, op, err) ==
    /\ CountT(o, "broadcastActionDone") = 1
    /\ CountEv(o, Ev("broadcastActionDone", op, err)) = 1

\* C15: a D-Bus error callback that arrives while a setup (a teardown) is in
\* progress clears that flag, broadcasts exactly one done event for that
\* operation with the error, and issues no call; the error of an Unmount or
\* Lock call is reported as a teardown failure, that of a Mount or Unlock call
\* as a setup failure.
C15_ErrorEndsOperation ==
    [][lastOp' = "slotDBusError" =>
          /\ m_setupInProgress =>
                ~m_setupInProgress' /\ CountEv(out', Ev("broadcastActionDone", "setup", arg')) = 1
          /\ m_teardownInProgress =>
                ~m_teardownInProgress' /\ CountEv(out', Ev("broadcastActionDone", "teardown", arg')) = 1
          /\ Busy => CountT(out', "broadcastActionDone") = 1
          /\ CountT(out', "callWithCallback") = 0
          /\ CountT(out', "call") = 0
          /\ (Busy /\ CallbackOf({"Unmount", "Lock"})) => OneDone(out', "teardown", arg')
          /\ (Busy /\ CallbackOf({"Mount", "Unlock"})) => OneDone(out', "setup", arg')]_vars

\* The step delivers the success callback of a call of kind methods.
ReplyTo(methods) ==
    /\ lastOp' = "slotDBusReply"
    /\ \E c \in BagToSet(pending) :
          c.method \in methods /\ (pending (-) SetToBag({c})) \sqsubseteq pending'

TeardownDone == Ev("broadcastActionDone", "teardown", "NoError")

\* The calls of kind method in flight.
InFlight(method) == {c \in BagToSet(pending) : c.method = method}

\* C16: teardown calls are ordered unmount, lock, eject or power-off,
\* completion. teardown() issues Unmount for the cleartext volume of an
\* unlocked encrypted container and for the device otherwise; Lock is issued
\* only on the success reply of the Unmount call and only while an unlocked
\* cleartext volume exists; the successful teardown-done broadcast (flag
\* cleared, cache invalidated) comes only on the reply of the Unmount call or,
\* when Lock was issued, of the Lock call, never while Lock is in flight.
C16_TeardownOrder ==
    [][/\ (lastOp' = "teardown" /\ out' # <<>>) =>
             /\ CountT(out', "callWithCallback") = 1
             /\ CountEv(out', Ev("callWithCallback", "Unmount",
                                 IF isLuks /\ ctPath # "" THEN ctPath ELSE DEV)) = 1
       /\ Count(out', "callWithCallback", "Lock") > 0 =>
             /\ ReplyTo({"Unmount"})
             /\ isLuks /\ ctPath' \notin {"", "/"}
             /\ CountEv(out', TeardownDone) = 0
       /\ CountEv(out', TeardownDone) > 0 =>
             /\ ReplyTo({"Unmount", "Lock"})
             /\ InFlight("Lock") # {} => ReplyTo({"Lock"})
             /\ ~m_teardownInProgress'
             /\ Count(out', "invalidateCache", "") = 1
             /\ out'[Len(SelectSeq(out', LAMBDA e : e.t = "call")) + 2] = TeardownDone]_vars

SetupDone == Ev("broadcastActionDone", "setup", "NoError")

\* The cleartext volume of the service state after the step exists and is mounted.
ClearTextMounted == ctPath' \notin {"", "/"} /\ ctMounted'

\* C17: setup done without error is broadcast only by a success reply that
\* arrives while a setup is in progress, and for an encrypted container only
\* when the device is accessible then; that reply clears m_setupInProgress and
\* invalidates the cache. A success reply that finds an encrypted container
\* not accessible keeps m_setupInProgress, broadcasts nothing and issues one
\* Mount call, against the cleartext volume when there is one, as after the
\* reply of the Unlock call.
C17_SetupDoneWhenAccessible ==
    [][/\ CountEv(out', SetupDone) > 0 =>
             /\ lastOp' = "slotDBusReply"
             /\ m_setupInProgress /\ ~m_setupInProgress'
             /\ isLuks => ClearTextMounted
       /\ (lastOp' = "slotDBusReply" /\ m_setupInProgress) =>
             IF isLuks /\ ~ClearTextMounted
             THEN /\ m_setupInProgress'
                  /\ CountT(out', "broadcastActionDone") = 0
                  /\ CountT(out', "invalidateCache") = 0
                  /\ CountT(out', "callWithCallback") = 1
                  /\ CountEv(out', Ev("callWithCallback", "Mount",
                                      IF ctPath' # "" THEN ctPath' ELSE DEV)) = 1
             ELSE /\ ~m_setupInProgress'
                  /\ CountEv(out', SetupDone) = 1
                  /\ Count(out', "invalidateCache", "") = 1
                  /\ CountT(out', "callWithCallback") = 0
       /\ (m_setupInProgress /\ ReplyTo({"Unlock"})) =>
             /\ m_setupInProgress'
             /\ CountEv(out', Ev("callWithCallback", "Mount", CT)) = 1
             /\ CountEv(out', SetupDone) = 0]_vars

\* A success reply during a setup found the container unlocked but not
\* accessible: Mount for the cleartext volume is in flight and the setup is
\* still in progress.
C17_Witness ==
    /\ lastOp = "slotDBusReply"
    /\ isLuks /\ ctPath = CT /\ ~ctMounted
    /\ m_setupInProgress /\ ~m_teardownInProgress /\ ~m_isAccessible
    /\ out = <<Ev("callWithCallback", "Mount", CT)>>
    /\ pending = SetToBag({[method |-> "Mount", path |-> CT]})

\* C18: a success reply that finds a teardown in progress and no cleartext
\* volume to lock sends Eject to the parent drive iff the drive reports
\* MediaRemovable and MediaAvailable and the device is no optical disc;
\* otherwise it sends PowerOff iff the drive reports CanPowerOff and the device
\* is no optical disc. Never both, neither for an optical disc, and neither
\* puts a call with callback in flight. In the same step, whatever was sent,
\* m_teardownInProgress is cleared, the cache is invalidated and teardown done
\* is broadcast without error.
C18_EjectOrPowerOff ==
    [][(/\ lastOp' = "slotDBusReply"
        /\ ~m_setupInProgress /\ m_teardownInProgress
        /\ ctPath' \in {"", "/"}) =>
          LET d == arg'
              eject == CountEv(out', Ev("call", "Eject", d.drivePath))
              powerOff == CountEv(out', Ev("call", "PowerOff", d.drivePath))
          IN  /\ eject = (IF d.removable /\ d.available /\ ~d.optical THEN 1 ELSE 0)
              /\ powerOff = (IF eject = 0 /\ d.canPowerOff /\ ~d.optical THEN 1 ELSE 0)
              /\ eject + powerOff <= 1
              /\ d.optical => eject + powerOff = 0
              /\ CountT(out', "call") = eject + powerOff
              /\ CountT(out', "callWithCallback") = 0
              /\ pending' \sqsubseteq pending
              /\ ~m_teardownInProgress'
              /\ Count(out', "invalidateCache", "") = 1
              /\ OneDone(out', "teardown", "NoError")]_vars

\* The Unmount of a device on a drive that can power off but holds no
\* removable medium succeeded: PowerOff went to the drive and the teardown is done.
C18_Witness ==
    /\ lastOp = "slotDBusReply"
    /\ ~isLuks /\ ~m_teardownInProgress
    /\ arg.drivePath = DRIVE /\ ~arg.removable /\ arg.canPowerOff /\ ~arg.optical
    /\ out = <<Ev("call", "PowerOff", DRIVE), Ev("invalidateCache", "", ""),
               Ev("broadcastActionDone", "teardown", "NoError"),
               Ev("accessibilityChanged", DEV, "false")>>

\* The handlers that start or carry on an operation of this object.
OwnHandlers == {"setup", "teardown", "passphraseReply", "slotDBusReply", "slotDBusError"}

\* C19: an accepted setup() or teardown() completes once its callbacks and
\* prompt replies are delivered; so whenever one of this object's handlers
\* leaves an operation in progress, a call with callback is in flight or a
\* passphrase prompt is outstanding.
C19_InProgressHasOutstanding ==
    (lastOp \in OwnHandlers /\ Busy) =>
        (pending # EmptyBag \/ m_passphraseRequested)

\* C21: passphraseReply() with no passphrase request outstanding changes
\* nothing: the three flags, the cached accessibility and the calls in flight
\* keep their values and the handler has no output (no Unlock, no done event).
\* A reply that does act finds a request outstanding and consumes it, and a
\* request becomes outstanding only when setup() shows the prompt; so each
\* request causes at most one Unlock call or one cancellation event.
C21_StrayReplyIgnored ==
    [][/\ (lastOp' = "passphraseReply" /\ ~m_passphraseRequested) =>
             /\ m_setupInProgress' = m_setupInProgress
             /\ m_teardownInProgress' = m_teardownInProgress
             /\ ~m_passphraseRequested'
             /\ m_isAccessible' = m_isAccessible
             /\ pending' = pending
             /\ out' = <<>>
       /\ (\/ Count(out', "callWithCallback", "Unlock") > 0
           \/ CountEv(out', Ev("broadcastActionDone", "setup", "UserCanceled")) > 0) =>
             /\ lastOp' = "passphraseReply"
             /\ m_passphraseRequested /\ ~m_passphraseRequested'
             /\ Count(out', "callWithCallback", "Unlock")
                  + CountEv(out', Ev("broadcastActionDone", "setup", "UserCanceled")) = 1
       /\ (~m_passphraseRequested /\ m_passphraseRequested') =>
             /\ lastOp' = "setup"
             /\ Count(out', "showPassphraseDialog", DEV) = 1]_vars

\* A second passphrase arrived for a request already answered: Unlock from the
\* first is still the only call in flight and the handler did nothing.
C21_Witness ==
    /\ lastOp = "passphraseReply" /\ arg = "secret"
    /\ out = <<>>
    /\ m_setupInProgress /\ ~m_passphraseRequested
    /\ pending = SetToBag({[method |-> "Unlock", path |-> DEV]})

\* The last step recomputed m_isAccessible (updateCache() ran in it).
Rechecked ==
    \/ lastOp \in {"StorageAccess", "checkAccessibility", "slotSetupDone", "slotTeardownDone"}
    \/ lastOp \in {"slotDBusReply", "slotDBusError"} /\ CountT(out, "broadcastActionDone") = 1

\* C13: isAccessible() of a device that is no encrypted container is whether
\* the device is mounted; of an encrypted container it is whether a cleartext
\* volume exists (clearTextPath() neither empty nor "/") and is mounted,
\* whatever the mount state of the container itself. The value updateCache()
\* stores is that one.
C13_Accessible ==
    /\ \A dm \in BOOLEAN :
          isAccessible([World EXCEPT !.dev = dm]) =
              IF isLuks THEN ctPath \notin {"", "/"} /\ ctMounted ELSE dm
    /\ Rechecked =>
          m_isAccessible = IF isLuks THEN ctPath \notin {"", "/"} /\ ctMounted
                           ELSE devMounted

\* An encrypted container whose cleartext volume is mounted was found
\* accessible when the device changed.
C13_Witness ==
    /\ lastOp = "checkAccessibility"
    /\ isLuks /\ ctPath = CT /\ ctMounted /\ ~devMounted
    /\ m_isAccessible
    /\ out = <<Ev("accessibilityChanged", DEV, "true")>>

-----------------------------------------------------------------------------
(* filePath(): the mount point a device is reported under *)

\* Most mount points a device reports in the model.
MaxMounts == 3

\* Mount points are byte arrays. In one the model writes, "#" is the first byte
\* of a multi-byte character and "~" a byte that continues it.
MountPointSet == {"/media/foo/bar", "/run/media/foo", "/mnt/data", "/media/#~~",
                  "/home/u/usb"}

RECURSIVE decodeName(_)
\* QFile::decodeName(): the bytes of one character become one character.
decodeName(b) ==
    IF b = "" THEN ""
    ELSE (IF SubSeq(b, 1, 1) = "~" THEN "" ELSE SubSeq(b, 1, 1))
         \o decodeName(SubSeq(b, 2, Len(b)))

\* Faulty variant: the first path is kept whatever follows.
keepShorter_keepsFirst(shortest, current) == shortest

\* Faulty variant: among equally short paths the last one wins.
keepShorter_orLast(shortest, current) ==
    IF Len(shortest) >= Len(current) THEN current ELSE shortest

\* One turn of the loop of get_shortest().
keepShorter(shortest, current) ==
    IF Len(shortest) > Len(current) THEN current ELSE shortest

RECURSIVE shortestFrom(_, _, _)
\* The loop of get_shortest() from index i on (indices count from 1 here).
shortestFrom(mntPoints, i, shortest) ==
    IF i > Len(mntPoints) THEN shortest
    ELSE shortestFrom(mntPoints, i + 1, keepShorter(shortest, decodeName(mntPoints[i])))

get_shortest(mntPoints) ==
    IF mntPoints = <<>> THEN ""
    ELSE shortestFrom(mntPoints, 2, decodeName(mntPoints[1]))

\* filePath(), of a device whose encryption, cleartext volume and mount points
\* are as given.
filePath(luks, ct, holderMounts, devMounts) ==
    IF luks
    THEN IF ct = "" \/ ct = "/" THEN "" ELSE get_shortest(holderMounts)
    ELSE get_shortest(devMounts)

\* Faulty variant: a device without mount point is not ignored.
isIgnored_unmountedShown(hint, path, home) ==
    IF hint THEN TRUE
    ELSE IF path = "" THEN FALSE
    ELSE ~(\/ startsWith(path, "/media/")
           \/ startsWith(path, "/run/media/")
           \/ startsWith(path, home))

\* isIgnored(): hint is the HintIgnore property, path what filePath() returns,
\* home what QDir::homePath() returns.
isIgnored(hint, path, home) ==
    IF hint THEN TRUE
    ELSE LET inUserPath == \/ startsWith(path, "/media/")
                           \/ startsWith(path, "/run/media/")
                           \/ startsWith(path, home)
         IN  ~inUserPath

\* QDir::homePath() is $HOME, or the root directory when that is not set.
HomePaths == {"/home/u", "/"}

NotCalled == "(filePath() not called)"

IgnoredNotCalled == "(isIgnored() not called)"

MountLists == UNION {[1..n -> MountPointSet] : n \in 0..MaxMounts}

StorageIdle ==
    /\ isLuks = FALSE
    /\ ctPath = ""
    /\ devMounted = FALSE
    /\ ctMounted = FALSE
    /\ m_setupInProgress = FALSE
    /\ m_teardownInProgress = FALSE
    /\ m_passphraseRequested = FALSE
    /\ m_isAccessible = FALSE
    /\ initAcc = FALSE
    /\ lastAcc = "none"
    /\ pending = EmptyBag
    /\ lastOp = "StorageAccess"
    /\ arg = ""
    /\ ret = "void"
    /\ out = <<>>

PathInit ==
    /\ pathLuks \in BOOLEAN
    /\ pathCt = ""
    /\ mntDev = <<>>
    /\ mntHolder = <<>>
    /\ filePathResult = NotCalled
    /\ hintIgnore \in BOOLEAN
    /\ homePath \in HomePaths
    /\ isIgnoredResult = IgnoredNotCalled

\* The service reports the mount points of the device (of the cleartext volume,
\* for an unlocked encrypted container).
ReportMountPoints ==
    /\ \E m \in MountLists :
          IF pathLuks
          THEN pathCt # "" /\ mntHolder' = m /\ mntDev' = mntDev
          ELSE mntDev' = m /\ mntHolder' = mntHolder
    /\ filePathResult' = NotCalled
    /\ isIgnoredResult' = IgnoredNotCalled
    /\ UNCHANGED <<pathLuks, pathCt, hintIgnore, homePath, storageVars, upowerVars>>

\* The encrypted container is unlocked or locked.
ClearTextChange ==
    /\ pathLuks
    /\ pathCt' = IF pathCt = "" THEN CT ELSE ""
    /\ mntHolder' = <<>>
    /\ filePathResult' = NotCalled
    /\ isIgnoredResult' = IgnoredNotCalled
    /\ UNCHANGED <<pathLuks, mntDev, hintIgnore, homePath, storageVars, upowerVars>>

FilePath ==
    /\ filePathResult' = filePath(pathLuks, pathCt, mntHolder, mntDev)
    /\ UNCHANGED <<pathLuks, pathCt, mntDev, mntHolder, hintIgnore, homePath,
                   isIgnoredResult, storageVars, upowerVars>>

IsIgnored ==
    /\ isIgnoredResult' =
          B2S(isIgnored(hintIgnore, filePath(pathLuks, pathCt, mntHolder, mntDev), homePath))
    /\ UNCHANGED <<pathLuks, pathCt, mntDev, mntHolder, hintIgnore, homePath,
                   filePathResult, storageVars, upowerVars>>

PathNext == ReportMountPoints \/ ClearTextChange \/ FilePath \/ IsIgnored

InitPath == StorageIdle /\ PathInit /\ UPowerIdle

SpecPath == InitPath /\ [][PathNext]_vars

\* The mount points filePath() selects among.
Reported == IF pathLuks THEN mntHolder ELSE mntDev

TwoMounts == {<<"/media/foo/bar", "/run/media/foo">>, <<"/run/media/foo", "/media/foo/bar">>}

\* C4 as stated: of "/media/foo/bar" and "/run/media/foo", in either order,
\* filePath() selects "/run/media/foo".
C4_SelectsRunMedia ==
    (filePathResult # NotCalled /\ Reported \in TwoMounts) =>
        filePathResult = "/run/media/foo"

\* C4 amended: "/media/foo/bar" and "/run/media/foo" are equally long (14
\* characters), and of the two filePath() selects the one reported first.
C4_SelectsFirstReported ==
    /\ Len("/media/foo/bar") = Len("/run/media/foo")
    /\ (filePathResult # NotCalled /\ Reported \in TwoMounts) =>
           filePathResult = Reported[1]

\* filePath() ran on a cleartext volume reporting "/media/foo/bar" first and
\* selected it.
C4_Witness ==
    /\ pathLuks
    /\ Reported = <<"/media/foo/bar", "/run/media/foo">>
    /\ filePathResult = "/media/foo/bar"

\* The mount path filePath() selects in this state.
SelectedPath == filePath(pathLuks, pathCt, mntHolder, mntDev)

\* C14: isIgnored() is true iff HintIgnore is true or the selected mount path
\* starts with none of "/media/", "/run/media/" and the home directory; a
\* device without mount point is ignored when the home directory is not empty.
C14_Ignored ==
    isIgnoredResult # IgnoredNotCalled =>
        /\ isIgnoredResult = "true" <=>
               \/ hintIgnore
               \/ /\ ~startsWith(SelectedPath, "/media/")
                  /\ ~startsWith(SelectedPath, "/run/media/")
                  /\ ~startsWith(SelectedPath, homePath)
        /\ isIgnoredResult \in {"true", "false"}
        /\ (SelectedPath = "" /\ homePath # "") => isIgnoredResult = "true"

\* isIgnored() ran on a device without HintIgnore and without mount point and
\* returned true.
C14_Witness ==
    /\ ~hintIgnore /\ ~pathLuks /\ Reported = <<>>
    /\ homePath = "/home/u"
    /\ isIgnoredResult = "true"

\* The reported mount points as file names (QFile::decodeName of each).
ReportedNames == [i \in 1..Len(Reported) |-> decodeName(Reported[i])]

\* C12: get_shortest() returns the empty string for an empty list; for a
\* non-empty list it returns one of the reported mount points (its file name),
\* no reported mount point is shorter, and every mount point reported before
\* it is longer.
C12_ShortestFirst ==
    filePathResult # NotCalled =>
        IF Reported = <<>>
        THEN filePathResult = ""
        ELSE \E i \in 1..Len(Reported) :
                /\ filePathResult = ReportedNames[i]
                /\ \A j \in 1..Len(Reported) : Len(ReportedNames[j]) >= Len(filePathResult)
                /\ \A j \in 1..(i - 1) : Len(ReportedNames[j]) > Len(filePathResult)

\* get_shortest() ran on three mount points of which the last is the shortest
\* name (8 characters in 10 bytes, after one of 9) and returned it.
C12_Witness ==
    /\ ~pathLuks
    /\ Reported = <<"/media/foo/bar", "/mnt/data", "/media/#~~">>
    /\ filePathResult = "/media/#"

-----------------------------------------------------------------------------
(* UPowerDevice *)

UP_DEVICE_KIND_UNKNOWN == 0
UP_DEVICE_KIND_LINE_POWER == 1
UP_DEVICE_KIND_BATTERY == 2
UP_DEVICE_KIND_UPS == 3
UP_DEVICE_KIND_MONITOR == 4
UP_DEVICE_KIND_MOUSE == 5
UP_DEVICE_KIND_KEYBOARD == 6
UP_DEVICE_KIND_PDA == 7
UP_DEVICE_KIND_PHONE == 8
UP_DEVICE_KIND_MEDIA_PLAYER == 9
UP_DEVICE_KIND_TABLET == 10
UP_DEVICE_KIND_COMPUTER == 11
UP_DEVICE_KIND_GAMING_INPUT == 12
UP_DEVICE_KIND_LAST == 13

\* Largest value of the Type property in the model.
MaxType == 14

UP_DBUS_INTERFACE_DEVICE == "org.freedesktop.UPower.Device"

\* A QVariant that holds an unsigned number or a string.
UIntVariant(n) == [valid |-> TRUE, u |-> n, s |-> ""]
StringVariant(x) == [valid |-> TRUE, u |-> 0, s |-> x]

toUInt(v) == v.u
toString(v) == v.s

\* The properties the model reads; the remote device never has a Model.
Keys == {"Type", "NativePath", "UpdateTime", "Model"}

NativePaths == {"/org/bluez/hci0/dev_00_1F", "/org/bluez", "sys/org/bluez/", "BAT0"}

UpdateTimes == {UIntVariant(100), UIntVariant(101)}

InterfaceTypes == {"GenericInterface", "Battery", "StorageAccess", "Processor"}

Put(f, k, v) == [x \in DOMAIN f \cup {k} |-> IF x = k THEN v ELSE f[x]]

Merge(f, g) == [x \in DOMAIN f \cup DOMAIN g |-> IF x \in DOMAIN f THEN f[x] ELSE g[x]]

\* The maps that have no key or the key k with a value of vals.
Opt(k, vals) == {EmptyMap} \cup {Put(EmptyMap, k, v) : v \in vals}

\* The property maps a remote device may have: any of its keys may be missing.
RemoteMaps(types, paths) ==
    {Merge(Merge(t, n), u) :
        t \in Opt("Type", {UIntVariant(k) : k \in types}),
        n \in Opt("NativePath", {StringVariant(x) : x \in paths}),
        u \in Opt("UpdateTime", UpdateTimes)}

\* The result of a UPowerDevice method: the cache, the value returned, the outputs.
UpResult(c, r, o) == [cache |-> c, ret |-> r, out |-> o]

\* allProperties(): getAllOk is whether the GetAll reply is valid.
allProperties(cache, rem, getAllOk) ==
    LET c == IF getAllOk THEN rem ELSE EmptyMap
    IN  UpResult(c, c, <<Ev("asyncCall", "GetAll", B2S(getAllOk))>>)

\* Faulty variant: the key is fetched and stored on every access, cached or not.
checkCache_refreshesKey(cache, rem, key, io) ==
    LET a == IF DOMAIN cache = {} THEN allProperties(cache, rem, io.getAllOk)
             ELSE UpResult(cache, cache, <<>>)
        reply == IF io.getOk /\ key \in DOMAIN rem THEN rem[key] ELSE Invalid
    IN  UpResult(Put(a.cache, key, reply), "", a.out \o <<Ev("property", key, "")>>)

\* checkCache(key): io.getAllOk and io.getOk are whether the GetAll reply and
\* the reading of the single property succeed.
checkCache(cache, rem, key, io) ==
    LET a == IF DOMAIN cache = {} THEN allProperties(cache, rem, io.getAllOk)
             ELSE UpResult(cache, cache, <<>>)
    IN  IF key \in DOMAIN a.cache
        THEN UpResult(a.cache, "", a.out)
        ELSE LET reply == IF io.getOk /\ key \in DOMAIN rem THEN rem[key] ELSE Invalid
             IN  UpResult(Put(a.cache, key, reply), "", a.out \o <<Ev("property", key, "")>>)

prop(cache, rem, key, io) ==
    LET c == checkCache(cache, rem, key, io)
    IN  UpResult(c.cache, c.cache[key], c.out)

\* Faulty variant: a key exists only if its cached value is valid.
propertyExists_validOnly(cache, rem, key, io) ==
    LET c == checkCache(cache, rem, key, io)
    IN  UpResult(c.cache, c.cache[key].valid, c.out)

propertyExists(cache, rem, key, io) ==
    LET c == checkCache(cache, rem, key, io)
    IN  UpResult(c.cache, key \in DOMAIN c.cache, c.out)

BatteryKinds == {UP_DEVICE_KIND_BATTERY, UP_DEVICE_KIND_UPS, UP_DEVICE_KIND_MOUSE,
                 UP_DEVICE_KIND_KEYBOARD, UP_DEVICE_KIND_PDA, UP_DEVICE_KIND_PHONE,
                 UP_DEVICE_KIND_GAMING_INPUT}

NoBatteryKinds == {UP_DEVICE_KIND_LINE_POWER, UP_DEVICE_KIND_MONITOR,
                   UP_DEVICE_KIND_MEDIA_PLAYER, UP_DEVICE_KIND_TABLET,
                   UP_DEVICE_KIND_COMPUTER, UP_DEVICE_KIND_LAST}

\* Faulty variant: the kind unknown is never a battery, whatever its path.
batteryCase_unknownNeverBattery(cache, rem, uptype, io) ==
    IF uptype \in BatteryKinds
    THEN UpResult(cache, TRUE, <<>>)
    ELSE UpResult(cache, FALSE, <<>>)

\* The inner switch of queryDeviceInterface(); a Type it has no case for falls
\* through to the outer default.
batteryCase(cache, rem, uptype, io) ==
    IF uptype \in BatteryKinds
    THEN UpResult(cache, TRUE, <<>>)
    ELSE IF uptype = UP_DEVICE_KIND_UNKNOWN
    THEN LET n == prop(cache, rem, "NativePath", io)
         IN  UpResult(n.cache, startsWith(toString(n.ret), "/org/bluez/"), n.out)
    ELSE IF uptype \in NoBatteryKinds
    THEN UpResult(cache, FALSE, <<>>)
    ELSE UpResult(cache, FALSE, <<>>)

queryDeviceInterface(cache, rem, type, io) ==
    LET t == prop(cache, rem, "Type", io)
        uptype == toUInt(t.ret)
    IN  IF type = "GenericInterface"
        THEN UpResult(t.cache, TRUE, t.out)
        ELSE IF type = "Battery"
        THEN LET b == batteryCase(t.cache, rem, uptype, io)
             IN  UpResult(b.cache, b.ret, t.out \o b.out)
        ELSE UpResult(t.cache, FALSE, t.out)

slotChanged(cache) ==
    UpResult(EmptyMap, "", <<Ev("clear", "m_cache", ""), Ev("emit", "changed", "")>>)

onPropertiesChanged(cache, ifaceName) ==
    IF ifaceName = UP_DBUS_INTERFACE_DEVICE
    THEN slotChanged(cache)
    ELSE UpResult(cache, "", <<>>)

\* Faulty variant: the cache is cleared whether or not Refresh succeeded.
login1Resuming_ignoresReply(cache, active, refreshOk) ==
    IF ~active
    THEN LET c == slotChanged(cache)
         IN  UpResult(c.cache, "", <<Ev("asyncCall", "Refresh", B2S(refreshOk))>> \o c.out)
    ELSE UpResult(cache, "", <<>>)

\* login1Resuming(active): refreshOk is whether the Refresh reply is valid.
login1Resuming(cache, active, refreshOk) ==
    IF ~active
    THEN LET call == <<Ev("asyncCall", "Refresh", B2S(refreshOk))>>
         IN  IF refreshOk
             THEN LET c == slotChanged(cache)
                  IN  UpResult(c.cache, "", call \o c.out)
             ELSE UpResult(cache, "", call)
    ELSE UpResult(cache, "", <<>>)

-----------------------------------------------------------------------------
(* SpecUPower: one UPowerDevice *)

IOs == [getAllOk : BOOLEAN, getOk : BOOLEAN]

UpStep(op, a, r) ==
    /\ m_cache' = r.cache
    /\ upOp' = op
    /\ upArg' = a
    /\ upRet' = r.ret
    /\ upOut' = r.out
    /\ UNCHANGED <<remote, storageVars, pathVars>>

UPowerInit ==
    /\ m_cache = EmptyMap
    /\ remote \in RemoteMaps({UP_DEVICE_KIND_UNKNOWN, UP_DEVICE_KIND_BATTERY},
                             {"/org/bluez/hci0/dev_00_1F", "BAT0"})
    /\ upOp = "UPowerDevice"
    /\ upArg = ""
    /\ upRet = ""
    /\ upOut = <<>>

Prop ==
    \E key \in Keys, io \in IOs :
        LET r == prop(m_cache, remote, key, io)
        IN  UpStep("prop", key, UpResult(r.cache, "", r.out))

PropertyExists ==
    \E key \in Keys, io \in IOs :
        LET r == propertyExists(m_cache, remote, key, io)
        IN  UpStep("propertyExists", key, UpResult(r.cache, B2S(r.ret), r.out))

AllProperties ==
    \E ok \in BOOLEAN :
        LET r == allProperties(m_cache, remote, ok)
        IN  UpStep("allProperties", "", UpResult(r.cache, "", r.out))

QueryDeviceInterface ==
    \E type \in InterfaceTypes, io \in IOs :
        LET r == queryDeviceInterface(m_cache, remote, type, io)
        IN  UpStep("queryDeviceInterface", type, UpResult(r.cache, B2S(r.ret), r.out))

\* The device's Changed() signal.
Changed ==
    UpStep("slotChanged", "", slotChanged(m_cache))

\* A PropertiesChanged signal of the device's object path.
PropertiesChanged ==
    \E ifaceName \in {UP_DBUS_INTERFACE_DEVICE, "org.freedesktop.DBus.Peer"} :
        UpStep("onPropertiesChanged", ifaceName, onPropertiesChanged(m_cache, ifaceName))

\* login1's PrepareForSleep signal.
PrepareForSleep ==
    \E active \in BOOLEAN, refreshOk \in BOOLEAN :
        UpStep("login1Resuming", B2S(active), login1Resuming(m_cache, active, refreshOk))

\* The remote device updates its state.
RemoteChange ==
    /\ \E u \in UpdateTimes : remote' = Put(remote, "UpdateTime", u)
    /\ remote' # remote
    /\ upOp' = "remote"
    /\ upArg' = ""
    /\ upRet' = ""
    /\ upOut' = <<>>
    /\ UNCHANGED <<m_cache, storageVars, pathVars>>

UPowerNext ==
    \/ Prop
    \/ PropertyExists
    \/ AllProperties
    \/ QueryDeviceInterface
    \/ Changed
    \/ PropertiesChanged
    \/ PrepareForSleep
    \/ RemoteChange

InitUPower == StorageIdle /\ PathIdle /\ UPowerInit

SpecUPower == InitUPower /\ [][UPowerNext]_vars

\* SpecKind: queryDeviceInterface() over every Type and NativePath.
KindInit ==
    /\ m_cache = EmptyMap
    /\ remote \in RemoteMaps(0..MaxType, NativePaths)
    /\ upOp = "UPowerDevice"
    /\ upArg = ""
    /\ upRet = ""
    /\ upOut = <<>>

KindNext == QueryDeviceInterface \/ Changed

InitKind == StorageIdle /\ PathIdle /\ KindInit

SpecKind == InitKind /\ [][KindNext]_vars

-----------------------------------------------------------------------------
(* Properties of SpecKind and SpecUPower *)

\* The kind queryDeviceInterface() classified: the Type it left in the cache.
CachedKind == toUInt(m_cache["Type"])

\* C9: queryDeviceInterface(Battery) is true exactly for the kinds battery, UPS,
\* mouse, keyboard, PDA, phone and gaming-input, and for the kind unknown when
\* NativePath starts with "/org/bluez/"; it is false for every other kind and
\* for every Type from UP_DEVICE_KIND_LAST on. queryDeviceInterface of
\* GenericInterface is true for every kind, of any other interface false. The
\* kind is the remote device's Type whenever the cache holds a valid one.
C9_BatteryInterface ==
    upOp = "queryDeviceInterface" =>
        /\ "Type" \in DOMAIN m_cache
        /\ m_cache["Type"].valid => m_cache["Type"] = remote["Type"]
        /\ upArg = "GenericInterface" => upRet = "true"
        /\ upArg \notin {"GenericInterface", "Battery"} => upRet = "false"
        /\ upArg = "Battery" =>
              upRet = B2S(\/ CachedKind \in {UP_DEVICE_KIND_BATTERY, UP_DEVICE_KIND_UPS,
                                             UP_DEVICE_KIND_MOUSE, UP_DEVICE_KIND_KEYBOARD,
                                             UP_DEVICE_KIND_PDA, UP_DEVICE_KIND_PHONE,
                                             UP_DEVICE_KIND_GAMING_INPUT}
                          \/ /\ CachedKind = UP_DEVICE_KIND_UNKNOWN
                             /\ "NativePath" \in DOMAIN m_cache
                             /\ startsWith(m_cache["NativePath"].s, "/org/bluez/"))

\* A device that reports the kind unknown and a native path below /org/bluez/
\* was found to be a battery.
C9_Witness ==
    /\ upOp = "queryDeviceInterface" /\ upArg = "Battery" /\ upRet = "true"
    /\ "Type" \in DOMAIN remote /\ remote["Type"] = UIntVariant(UP_DEVICE_KIND_UNKNOWN)
    /\ m_cache["Type"] = remote["Type"]
    /\ m_cache["NativePath"] = StringVariant("/org/bluez/hci0/dev_00_1F")

\* C10: login1Resuming(false) issues one Refresh call; if its reply is valid the
\* cache is cleared once and changed() is emitted once, otherwise the cache is
\* left alone and nothing is emitted. login1Resuming(true) does nothing.
C10_Resume ==
    [][upOp' = "login1Resuming" =>
          IF upArg' = "false"
          THEN /\ Count(upOut', "asyncCall", "Refresh") = 1
               /\ IF CountEv(upOut', Ev("asyncCall", "Refresh", "true")) = 1
                  THEN /\ Count(upOut', "clear", "m_cache") = 1
                       /\ Count(upOut', "emit", "changed") = 1
                       /\ DOMAIN m_cache' = {}
                  ELSE /\ Len(upOut') = 1
                       /\ m_cache' = m_cache
          ELSE /\ upOut' = <<>>
               /\ m_cache' = m_cache]_vars

\* The device resumed, Refresh succeeded, the cache is empty and changed() went out.
C10_Witness ==
    /\ upOp = "login1Resuming" /\ upArg = "false"
    /\ upOut = <<Ev("asyncCall", "Refresh", "true"), Ev("clear", "m_cache", ""),
                 Ev("emit", "changed", "")>>
    /\ DOMAIN m_cache = {}

-----------------------------------------------------------------------------
(* Properties of the property cache, under SpecUPower *)

\* The steps that read one property through checkCache().
Access == {"prop", "propertyExists"}

\* The GetAll reply of the step was valid.
GetAllValid(o) == CountEv(o, Ev("asyncCall", "GetAll", "true")) = 1

\* C11 as stated: a change signal empties the cache, the next access issues one
\* GetAll, and no access ever fetches a single property and stores it under
\* its key.
C11_NeverOneKeyAtATime ==
    [][/\ upOp' = "slotChanged" => DOMAIN m_cache' = {}
       /\ upOp' \in Access =>
             /\ Count(upOut', "asyncCall", "GetAll") = (IF DOMAIN m_cache = {} THEN 1 ELSE 0)
             /\ CountT(upOut', "property") = 0]_vars

\* C11 amended: a change signal empties the cache; an access that finds the
\* cache empty issues exactly one GetAll and a valid reply fills the cache with
\* every property of the remote device; an access that finds it non-empty
\* issues none. Only the key asked for, and only when the cache still lacks it
\* after that (the GetAll failed or its reply has no such key), is fetched
\* alone and stored under its key; an entry the cache holds is never changed
\* by an access.
C11_CacheRefill ==
    [][/\ upOp' = "slotChanged" => DOMAIN m_cache' = {}
       /\ (upOp' = "onPropertiesChanged" /\ upArg' = UP_DBUS_INTERFACE_DEVICE)
              => DOMAIN m_cache' = {}
       /\ upOp' \in Access =>
             /\ Count(upOut', "asyncCall", "GetAll") = (IF DOMAIN m_cache = {} THEN 1 ELSE 0)
             /\ (DOMAIN m_cache = {} /\ GetAllValid(upOut')) =>
                    \A k \in DOMAIN remote : k \in DOMAIN m_cache' /\ m_cache'[k] = remote[k]
             /\ \A k \in DOMAIN m_cache : k \in DOMAIN m_cache' /\ m_cache'[k] = m_cache[k]
             /\ CountT(upOut', "property") = Count(upOut', "property", upArg')
             /\ Count(upOut', "property", upArg') =
                    (IF \/ upArg' \in DOMAIN m_cache
                        \/ (GetAllValid(upOut') /\ upArg' \in DOMAIN remote)
                     THEN 0 ELSE 1)
             /\ DOMAIN m_cache' =
                    DOMAIN m_cache \cup {upArg'}
                    \cup (IF GetAllValid(upOut') THEN DOMAIN remote ELSE {})]_vars

\* GetAll failed on an empty cache and the property Type was then fetched
\* alone and stored under its key.
C11_Witness ==
    /\ upOp = "prop" /\ upArg = "Type"
    /\ upOut = <<Ev("asyncCall", "GetAll", "false"), Ev("property", "Type", "")>>
    /\ "Type" \in DOMAIN remote
    /\ m_cache = Put(EmptyMap, "Type", remote["Type"])

\* The steps after which the cache may be empty: the change signals and a
\* direct allProperties() whose GetAll failed or found nothing.
Emptying == {"slotChanged", "onPropertiesChanged", "login1Resuming", "allProperties"}

\* C20: after prop(key) or propertyExists(key) the cache has an entry for key,
\* an invalid one when the remote device has no such property, and
\* propertyExists(key) returns true for every key. An access that finds the
\* cache non-empty, be it by a single missing key, issues no GetAll, and the
\* cache stays non-empty until a change signal (or allProperties()) empties it.
C20_KeyAlwaysCached ==
    [][/\ upOp' \in Access =>
             /\ upArg' \in DOMAIN m_cache'
             /\ upArg' \notin DOMAIN remote => m_cache'[upArg'] = Invalid
             /\ upOp' = "propertyExists" => upRet' = "true"
             /\ DOMAIN m_cache # {} => Count(upOut', "asyncCall", "GetAll") = 0
       /\ (DOMAIN m_cache # {} /\ DOMAIN m_cache' = {}) => upOp' \in Emptying
       /\ (upOp' = "queryDeviceInterface" /\ DOMAIN m_cache # {}) =>
             Count(upOut', "asyncCall", "GetAll") = 0]_vars

\* The cache held nothing but an invalid entry for Model, a property the remote
\* device does not have; propertyExists("Model") returned true without any call.
C20_Witness ==
    /\ upOp = "propertyExists" /\ upArg = "Model" /\ upRet = "true"
    /\ "Model" \notin DOMAIN remote
    /\ m_cache = Put(EmptyMap, "Model", Invalid)
    /\ upOut = <<>>

====
